---- MODULE Spec2Model ----
(***************************************************************************)
(* Model of azurerm_logic_app_trigger_recurrence                           *)
(* (azurerm/internal/services/logic/logic_app_trigger_recurrence_resource  *)
(* .go): the ResourceData d of one tracked trigger, the trigger document *)
(* held by the remote workflow, and the Create/Update, Read and Delete     *)
(* handlers with the collaborators they call.                              *)
(*                                                                         *)
(* Representation.                                                         *)
(*  - A Go map[string]interface{} is a function whose DOMAIN is the set of *)
(*    keys present; <<>> is the map with no key.                           *)
(*  - A pointer that may be nil (the *map returned by the fetch) is a      *)
(*    sequence of length 0 (nil) or 1.                                     *)
(*  - The value under trigger["recurrence"] carries its dynamic type       *)
(*    ([kind |-> "object", fields |-> m] or another kind), because the     *)
(*    code tests it with a checked type assertion.                         *)
(*  - A number of a fetched (JSON-decoded) document is a float64; it is    *)
(*    held in units of 1/Half, so that 3 stands for 1.5.  A number of a    *)
(*    document built by Create/Update is a Go int and is held as itself.   *)
(*  - error values are sequences of strings; <<>> is the nil error.        *)
(***************************************************************************)
EXTENDS Integers, Sequences, FiniteSets, TLC

VARIABLES
    d,          \* *schema.ResourceData: id and the configuration fields
    remote,     \* trigger document stored in the remote workflow (nil or one)
    pc,         \* "idle", or the handler the host has planned: "create"/"update"
    lastOp,     \* the operation that ran last
    lastErr,    \* the error it returned
    calls,      \* collaborator operations it called, in order
    upserted,   \* document it passed to the upsert operation, and the error
                \* that operation returned (none or one)
    fetched,    \* what the fetch operation returned to it (none or one)
    applied,    \* configuration the remote document was built from (none or one)
    planned,    \* configuration the host was handed in its last step (none or one)
    input,      \* schedule list handed to expandLogicAppTriggerRecurrenceSchedule
    output,     \* schedule object it returned (none or one)
    flat        \* what flattenLogicAppTriggerRecurrenceSchedule made of it (none or one)

vars == <<d, remote, pc, lastOp, lastErr, calls, upserted, fetched, applied, planned,
          input, output, flat>>

lifecycleVars ==
    <<d, remote, pc, lastOp, lastErr, calls, upserted, fetched, applied, planned>>

mapperVars == <<input, output, flat>>

-----------------------------------------------------------------------------
(* Bounds of the model *)

\* intervals 1..MaxInterval are configured; a document written out of band
\* carries MaxInterval + 1
MaxInterval == 1

\* a float64 is held in units of 1/Half
Half == 2

(* Program constants *)

\* validation.IntBetween(0, 23) on at_these_hours
MaxHour == 23

\* validation.IntBetween(0, 59) on at_these_minutes
MaxMinute == 59

\* schedule is a list of at most one block
MaxItems == 1

\* significand of the float64 that a decoded JSON number is
MantissaBits == 53

None == <<>>

NoErr == <<>>

-----------------------------------------------------------------------------
(* Numbers *)

Abs(n) == IF n < 0 THEN -n ELSE n

Sign(n) == IF n < 0 THEN -1 ELSE 1

RECURSIVE BitLen(_)
BitLen(n) == IF n = 0 THEN 0 ELSE 1 + BitLen(n \div 2)

\* int -> float64 as the JSON decoder yields it: exact up to MantissaBits bits,
\* rounded to nearest-even beyond
ToFloat64(i) ==
    LET a == Abs(i)
        b == BitLen(a)
    IN  IF b <= MantissaBits THEN Half * i
        ELSE LET unit == 2 ^ (b - MantissaBits)
                 q == a \div unit
                 r == a % unit
                 up == (2 * r > unit) \/ (2 * r = unit /\ q % 2 = 1)
             IN  Half * Sign(i) * (IF up THEN q + 1 ELSE q) * unit

\* int(f) of Go: truncation toward zero
Float64ToInt(f) == Sign(f) * (Abs(f) \div Half)

Range(s) == {s[i] : i \in 1..Len(s)}

\* a sequence listing the set S by ascending rank h
RECURSIVE ListBy(_, _)
ListBy(S, h) ==
    IF S = {} THEN <<>>
    ELSE LET x == CHOOSE y \in S : \A z \in S : h[y] <= h[z]
         IN  <<x>> \o ListBy(S \ {x}, h)

\* schema.Set.List(): the elements in the order of their hash codes
SetList(S, h) == ListBy(S, h)

-----------------------------------------------------------------------------
(* Values *)

Frequencies == {"Month", "Week", "Day", "Hour", "Minute", "Second"}

WeekDays == {"Monday", "Tuesday", "Wednesday", "Thursday", "Friday", "Saturday", "Sunday"}

\* two of the names validateLogicAppTriggerRecurrenceTimeZone lists
TimeZones == {"UTC", "GMT Standard Time"}

\* strings validation.IsRFC3339Time accepts
RFC3339Times == {"2020-01-01T00:00:00Z"}

TriggerId == "/subscriptions/s/resourceGroups/rg/providers/Microsoft.Logic/workflows/wf/triggers/trig"

WorkflowId == "/subscriptions/s/resourceGroups/rg/providers/Microsoft.Logic/workflows/wf"

\* rank functions: one order of the integers of U and one of the strings of V
Ranks(U) == {f \in [U -> 1..Cardinality(U)] : \A x, y \in U : f[x] = f[y] => x = y}

HashOrders(U, V) == [n : Ranks(U), s : Ranks(V)]

\* a schedule block with every combination of elements drawn from H, M and W
ScheduleBlocks(H, M, W) ==
    [at_these_hours : SUBSET H, at_these_minutes : SUBSET M, on_these_days : SUBSET W]

\* the configuration fields of d
FieldNames == {"frequency", "interval", "start_time", "time_zone", "schedule"}

Fields(r) == [k \in FieldNames |-> r[k]]

\* the state of a resource that is not tracked: every field at its zero value
ZeroData ==
    [id |-> "", name |-> "", logic_app_id |-> "", frequency |-> "", interval |-> 0,
     start_time |-> "", time_zone |-> "", schedule |-> <<>>]

-----------------------------------------------------------------------------
(* Schema *)

\* as ValidateScheduleBlock, without AtLeastOneOf
ValidateAcceptsEmptyBlock(block) ==
    /\ block.at_these_hours \subseteq 0..MaxHour
    /\ block.at_these_minutes \subseteq 0..MaxMinute
    /\ block.on_these_days \subseteq WeekDays

\* AtLeastOneOf on the three sets of a schedule block, and their element ranges
ValidateScheduleBlock(block) ==
    /\ \/ block.at_these_hours # {}
       \/ block.at_these_minutes # {}
       \/ block.on_these_days # {}
    /\ block.at_these_hours \subseteq 0..MaxHour
    /\ block.at_these_minutes \subseteq 0..MaxMinute
    /\ block.on_these_days \subseteq WeekDays

\* the constraints the schema declares on a configuration
Validate(C) ==
    /\ C.frequency \in Frequencies
    /\ C.interval \in Int
    /\ C.start_time # "" => C.start_time \in RFC3339Times
    /\ C.time_zone # "" => C.time_zone \in TimeZones
    /\ Len(C.schedule) <= MaxItems
    /\ \A i \in 1..Len(C.schedule) : ValidateScheduleBlock(C.schedule[i])

\* d.GetOk(key): the value is set and is not the zero value of its type
GetOk(d0, key) ==
    CASE key = "interval" -> d0[key] # 0
      [] key = "schedule" -> d0[key] # <<>>
      [] OTHER -> d0[key] # ""

\* the ResourceData a handler receives for configuration C over prior state d0:
\* every field from C, except that time_zone (Optional and Computed) keeps the
\* prior value when C leaves it unset
Plan(d0, C) ==
    LET prior == IF d0.id = "" THEN ZeroData ELSE d0
    IN  [prior EXCEPT !.name = "trig",
                      !.logic_app_id = WorkflowId,
                      !.frequency = C.frequency,
                      !.interval = C.interval,
                      !.start_time = C.start_time,
                      !.time_zone = IF C.time_zone = "" THEN prior.time_zone ELSE C.time_zone,
                      !.schedule = C.schedule]

-----------------------------------------------------------------------------
(* Expand and flatten *)

\* as expandLogicAppTriggerRecurrenceSchedule, without the len(...) > 0 tests
expandScheduleKeepsEmpty(sched, h) ==
    IF Len(sched) = 0 \/ sched[1] = None THEN <<>>
    ELSE LET a == sched[1]
         IN  [hours |-> SetList(a.at_these_hours, h.n),
              minutes |-> SetList(a.at_these_minutes, h.n),
              weekDays |-> SetList(a.on_these_days, h.s)]

\* sched is the schedule list of d; a block that is nil is None
expandLogicAppTriggerRecurrenceSchedule(sched, h) ==
    IF Len(sched) = 0 \/ sched[1] = None THEN <<>>
    ELSE LET a == sched[1]
             hours == IF "at_these_hours" \in DOMAIN a
                      THEN SetList(a.at_these_hours, h.n) ELSE <<>>
             minutes == IF "at_these_minutes" \in DOMAIN a
                        THEN SetList(a.at_these_minutes, h.n) ELSE <<>>
             days == IF "on_these_days" \in DOMAIN a
                     THEN SetList(a.on_these_days, h.s) ELSE <<>>
         IN  (IF Len(hours) > 0 THEN "hours" :> hours ELSE <<>>)
             @@ (IF Len(minutes) > 0 THEN "minutes" :> minutes ELSE <<>>)
             @@ (IF Len(days) > 0 THEN "weekDays" :> days ELSE <<>>)

\* as flattenLogicAppTriggerRecurrenceSchedule, hours and minutes exchanged
flattenScheduleSwapped(obj) ==
    << (IF "hours" \in DOMAIN obj THEN "at_these_minutes" :> obj.hours ELSE <<>>)
       @@ (IF "minutes" \in DOMAIN obj THEN "at_these_hours" :> obj.minutes ELSE <<>>)
       @@ (IF "weekDays" \in DOMAIN obj THEN "on_these_days" :> obj.weekDays ELSE <<>>) >>

flattenLogicAppTriggerRecurrenceSchedule(obj) ==
    << (IF "hours" \in DOMAIN obj THEN "at_these_hours" :> obj.hours ELSE <<>>)
       @@ (IF "minutes" \in DOMAIN obj THEN "at_these_minutes" :> obj.minutes ELSE <<>>)
       @@ (IF "weekDays" \in DOMAIN obj THEN "on_these_days" :> obj.weekDays ELSE <<>>) >>

\* d.Set("schedule", list): each element becomes a block holding the three sets,
\* a number decoded to int, a key that is missing an empty set
SetSchedule(list) ==
    [i \in 1..Len(list) |->
        [at_these_hours |->
            IF "at_these_hours" \in DOMAIN list[i]
            THEN {Float64ToInt(x) : x \in Range(list[i].at_these_hours)} ELSE {},
         at_these_minutes |->
            IF "at_these_minutes" \in DOMAIN list[i]
            THEN {Float64ToInt(x) : x \in Range(list[i].at_these_minutes)} ELSE {},
         on_these_days |->
            IF "on_these_days" \in DOMAIN list[i]
            THEN Range(list[i].on_these_days) ELSE {}]]

\* as BuildTrigger, time_zone tested outside the start_time branch
BuildTriggerAlwaysTimeZone(d0, h) ==
    LET rec == ("frequency" :> d0.frequency) @@ ("interval" :> d0.interval)
               @@ (IF GetOk(d0, "start_time") THEN "startTime" :> d0.start_time ELSE <<>>)
               @@ (IF GetOk(d0, "time_zone") THEN "timeZone" :> d0.time_zone ELSE <<>>)
               @@ (IF GetOk(d0, "schedule")
                   THEN "schedule" :> expandLogicAppTriggerRecurrenceSchedule(d0.schedule, h)
                   ELSE <<>>)
    IN  [recurrence |-> [kind |-> "object", fields |-> rec], type |-> "Recurrence"]

\* the trigger document Create/Update builds from d
BuildTrigger(d0, h) ==
    LET rec0 == ("frequency" :> d0.frequency) @@ ("interval" :> d0.interval)
        rec1 == IF GetOk(d0, "start_time")
                THEN rec0 @@ ("startTime" :> d0.start_time)
                     @@ (IF GetOk(d0, "time_zone") THEN "timeZone" :> d0.time_zone ELSE <<>>)
                ELSE rec0
        rec2 == IF GetOk(d0, "schedule")
                THEN rec1 @@ ("schedule" :> expandLogicAppTriggerRecurrenceSchedule(d0.schedule, h))
                ELSE rec1
    IN  [recurrence |-> [kind |-> "object", fields |-> rec2], type |-> "Recurrence"]

-----------------------------------------------------------------------------
(* Collaborators: the shared trigger helpers and the identifier parser *)

\* azure.ParseAzureResourceID
ParseAzureResourceID(id) ==
    IF id = TriggerId
    THEN [err |-> NoErr, ResourceGroup |-> "rg", workflows |-> "wf", triggers |-> "trig"]
    ELSE [err |-> <<"Cannot parse Azure ID", id>>,
          ResourceGroup |-> "", workflows |-> "", triggers |-> ""]

\* the document as the remote workflow returns it: encoded to JSON and decoded
\* again, every number a float64
WireSchedule(obj) ==
    [j \in DOMAIN obj |->
        IF j \in {"hours", "minutes"}
        THEN [i \in 1..Len(obj[j]) |-> ToFloat64(obj[j][i])]
        ELSE obj[j]]

Wire(trigger) ==
    LET rec == trigger.recurrence.fields
        conv(k) ==
            CASE k = "interval" -> ToFloat64(rec[k])
              [] k = "schedule" -> WireSchedule(rec[k])
              [] OTHER -> rec[k]
    IN  [recurrence |-> [kind |-> "object", fields |-> [k \in DOMAIN rec |-> conv(k)]],
         type |-> trigger.type]

\* resourceLogicAppTriggerUpdate: upsert the trigger under the workflow; on
\* success the resource's identifier is set
resourceLogicAppTriggerUpdate(d0, trigger, ok) ==
    IF ok
    THEN [err |-> NoErr, d |-> [d0 EXCEPT !.id = TriggerId], stored |-> <<Wire(trigger)>>]
    ELSE [err |-> <<"upsert failed">>, d |-> d0, stored |-> None]

\* retrieveLogicAppTrigger: (trigger or nil, parent workflow, error)
retrieveLogicAppTrigger(rem, ok) ==
    IF ok
    THEN [err |-> NoErr, t |-> rem, app |-> [ID |-> WorkflowId]]
    ELSE [err |-> <<"retrieve failed">>, t |-> None, app |-> [ID |-> ""]]

\* resourceLogicAppTriggerRemove
resourceLogicAppTriggerRemove(ok) == IF ok THEN NoErr ELSE <<"remove failed">>

-----------------------------------------------------------------------------
(* Handlers.  A handler's result: the ResourceData it leaves, the error it  *)
(* returns, the collaborator calls it made, what the fetch returned.        *)

\* as TriggerNotFound, without d.SetId("")
TriggerNotFoundKeepsId(d0) == d0

\* as TriggerNotFound, the fields reset as well
TriggerNotFoundClearsFields(d0) == ZeroData

\* Read when the fetch returns no trigger: d.SetId("")
TriggerNotFound(d0) == [d0 EXCEPT !.id = ""]

\* as CheckRecurrence, the checked type assertion left out
CheckRecurrenceUnchecked(trigger) ==
    IF "recurrence" \notin DOMAIN trigger THEN "nil" ELSE "object"

\* Read's tests of trigger["recurrence"]: nil, not an object, or an object
CheckRecurrence(trigger) ==
    IF "recurrence" \notin DOMAIN trigger THEN "nil"
    ELSE IF trigger.recurrence.kind # "object" THEN "other"
    ELSE "object"

\* as SetFields, a field whose key is absent reset to its zero value
SetFieldsClearingAbsent(d1, rec) ==
    [d1 EXCEPT
        !.frequency = IF "frequency" \in DOMAIN rec THEN rec.frequency ELSE "",
        !.interval = IF "interval" \in DOMAIN rec THEN Float64ToInt(rec.interval) ELSE 0,
        !.start_time = IF "startTime" \in DOMAIN rec THEN rec.startTime ELSE "",
        !.time_zone = IF "timeZone" \in DOMAIN rec THEN rec.timeZone ELSE "",
        !.schedule = IF "schedule" \in DOMAIN rec
                     THEN SetSchedule(flattenLogicAppTriggerRecurrenceSchedule(rec.schedule))
                     ELSE <<>>]

\* the fields Read sets from the recurrence object: each one only when its key
\* is present
SetFields(d1, rec) ==
    [d1 EXCEPT
        !.frequency = IF "frequency" \in DOMAIN rec THEN rec.frequency ELSE @,
        !.interval = IF "interval" \in DOMAIN rec THEN Float64ToInt(rec.interval) ELSE @,
        !.start_time = IF "startTime" \in DOMAIN rec THEN rec.startTime ELSE @,
        !.time_zone = IF "timeZone" \in DOMAIN rec THEN rec.timeZone ELSE @,
        !.schedule = IF "schedule" \in DOMAIN rec
                     THEN SetSchedule(flattenLogicAppTriggerRecurrenceSchedule(rec.schedule))
                     ELSE @]

\* ft is what retrieveLogicAppTrigger returns when Read calls it
resourceLogicAppTriggerRecurrenceRead(d0, ft) ==
    LET id == ParseAzureResourceID(d0.id)
        resourceGroup == id.ResourceGroup
        logicAppName == id.workflows
        name == id.triggers
        d1 == [d0 EXCEPT !.name = name, !.logic_app_id = ft.app.ID]
    IN  IF id.err # NoErr
        THEN [d |-> d0, err |-> id.err, calls |-> <<>>, fetched |-> None]
        ELSE IF ft.err # NoErr
        THEN [d |-> d0, err |-> ft.err, calls |-> <<"fetch">>, fetched |-> <<ft>>]
        ELSE IF ft.t = None
        THEN [d |-> TriggerNotFound(d0), err |-> NoErr,
              calls |-> <<"fetch">>, fetched |-> <<ft>>]
        ELSE IF CheckRecurrence(ft.t[1]) = "nil"
        THEN [d |-> d1,
              err |-> <<"Error recurrence was nil for HTTP Trigger",
                        name, logicAppName, resourceGroup>>,
              calls |-> <<"fetch">>, fetched |-> <<ft>>]
        ELSE IF CheckRecurrence(ft.t[1]) = "other"
        THEN [d |-> d1,
              err |-> <<"Error parsing recurrence for HTTP Trigger",
                        name, logicAppName, resourceGroup>>,
              calls |-> <<"fetch">>, fetched |-> <<ft>>]
        ELSE [d |-> SetFields(d1, ft.t[1].recurrence.fields), err |-> NoErr,
              calls |-> <<"fetch">>, fetched |-> <<ft>>]

\* as resourceLogicAppTriggerRecurrenceCreateUpdate, the error of the upsert
\* not tested before the re-read
CreateUpdateAlwaysReads(d0, rem, h, env) ==
    LET trigger == BuildTrigger(d0, h)
        up == resourceLogicAppTriggerUpdate(d0, trigger, env.upsertOk)
        rem1 == IF up.err # NoErr THEN rem ELSE IF env.gone THEN None ELSE up.stored
        r == resourceLogicAppTriggerRecurrenceRead(up.d, retrieveLogicAppTrigger(rem1, env.fetchOk))
    IN  [d |-> r.d, remote |-> rem1, err |-> r.err, calls |-> <<"upsert">> \o r.calls,
         upserted |-> <<[trigger |-> trigger, err |-> up.err]>>, fetched |-> r.fetched]

\* env is what the collaborators do during the call: whether the upsert and the
\* fetch succeed, and whether the trigger is removed out of band between the two
resourceLogicAppTriggerRecurrenceCreateUpdate(d0, rem, h, env) ==
    LET trigger == BuildTrigger(d0, h)
        up == resourceLogicAppTriggerUpdate(d0, trigger, env.upsertOk)
        rem1 == IF env.gone THEN None ELSE up.stored
        r == resourceLogicAppTriggerRecurrenceRead(up.d, retrieveLogicAppTrigger(rem1, env.fetchOk))
    IN  IF up.err # NoErr
        THEN [d |-> d0, remote |-> rem, err |-> up.err, calls |-> <<"upsert">>,
              upserted |-> <<[trigger |-> trigger, err |-> up.err]>>, fetched |-> None]
        ELSE [d |-> r.d, remote |-> rem1, err |-> r.err, calls |-> <<"upsert">> \o r.calls,
              upserted |-> <<[trigger |-> trigger, err |-> up.err]>>, fetched |-> r.fetched]

\* rm is what resourceLogicAppTriggerRemove returns when Delete calls it
resourceLogicAppTriggerRecurrenceDelete(d0, rm) ==
    LET id == ParseAzureResourceID(d0.id)
    IN  IF id.err # NoErr
        THEN [err |-> id.err, calls |-> <<>>]
        ELSE IF rm # NoErr
        THEN [err |-> <<"Error removing Trigger", id.triggers, id.workflows,
                        id.ResourceGroup>> \o rm,
              calls |-> <<"remove">>]
        ELSE [err |-> NoErr, calls |-> <<"remove">>]

-----------------------------------------------------------------------------
(* Lifecycle of one tracked trigger *)

LifecycleHours == {MaxHour}

LifecycleMinutes == {}

LifecycleDays == {"Monday"}

LifecycleOrders == HashOrders(LifecycleHours \cup LifecycleMinutes, LifecycleDays)

\* configurations the host may hand over; the schedule block with three empty
\* sets is among them
ConfigInputs ==
    [frequency : {"Day"},
     interval : 1..MaxInterval,
     start_time : {""} \cup RFC3339Times,
     time_zone : {"", "UTC"},
     schedule : {<<>>} \cup
                {<<b>> : b \in ScheduleBlocks(LifecycleHours, LifecycleMinutes, LifecycleDays)}]

Opt(key, o) == IF o = None THEN <<>> ELSE key :> o[1]

\* recurrence objects another writer may store: every key present or absent
RecurrenceObjects ==
    {Opt("frequency", f) @@ Opt("interval", i) @@ Opt("startTime", st)
        @@ Opt("timeZone", tz) @@ Opt("schedule", sc) :
        f \in {None, <<"Week">>},
        i \in {None, <<ToFloat64(MaxInterval + 1)>>},
        st \in {None} \cup {<<t>> : t \in RFC3339Times},
        tz \in {None, <<"UTC">>},
        sc \in {None, << [hours |-> <<ToFloat64(MaxHour)>>, weekDays |-> <<"Monday">>] >>}}

\* what the remote workflow may hold after a change made out of band: no
\* trigger, a trigger without recurrence, one whose recurrence is no object, or
\* one with a recurrence object
OutOfBandStates ==
    {None, << [type |-> "Recurrence"] >>,
     << [recurrence |-> [kind |-> "string", fields |-> <<>>], type |-> "Recurrence"] >>}
    \cup {<< [recurrence |-> [kind |-> "object", fields |-> rec], type |-> "Recurrence"] >> :
            rec \in RecurrenceObjects}

Init ==
    /\ d = ZeroData
    /\ remote = None
    /\ pc = "idle"
    /\ lastOp = "none"
    /\ lastErr = NoErr
    /\ calls = <<>>
    /\ upserted = None
    /\ fetched = None
    /\ applied = None
    /\ planned = None
    /\ input = <<>>
    /\ output = None
    /\ flat = None

\* the host validates configuration C against the schema and, when it passes,
\* plans Create (resource not tracked) or Update with the ResourceData for C
HostPlan(C) ==
    /\ pc = "idle"
    /\ lastOp' = "Plan"
    /\ planned' = <<C>>
    /\ calls' = <<>>
    /\ upserted' = None
    /\ fetched' = None
    /\ IF Validate(C)
       THEN /\ d' = Plan(d, C)
            /\ pc' = IF d.id = "" THEN "create" ELSE "update"
            /\ lastErr' = NoErr
       ELSE /\ lastErr' = <<"validation">>
            /\ UNCHANGED <<d, pc>>
    /\ UNCHANGED <<remote, applied, mapperVars>>

\* terraform import: the identifier is taken as given, into a state that holds
\* nothing else of the resource
Import(id) ==
    /\ pc = "idle"
    /\ d' = [ZeroData EXCEPT !.id = id]
    /\ lastOp' = "Import"
    /\ planned' = None
    /\ lastErr' = NoErr
    /\ calls' = <<>>
    /\ upserted' = None
    /\ fetched' = None
    /\ UNCHANGED <<pc, remote, applied, mapperVars>>

CreateUpdate ==
    /\ pc \in {"create", "update"}
    /\ \E h \in LifecycleOrders :
       \E env \in [upsertOk : BOOLEAN, gone : BOOLEAN, fetchOk : BOOLEAN] :
          LET r == resourceLogicAppTriggerRecurrenceCreateUpdate(d, remote, h, env)
          IN  /\ d' = r.d
              /\ remote' = r.remote
              /\ lastErr' = r.err
              /\ calls' = r.calls
              /\ upserted' = r.upserted
              /\ fetched' = r.fetched
              /\ applied' = IF ~env.upsertOk THEN applied
                            ELSE IF env.gone THEN None ELSE <<Fields(d)>>
    /\ lastOp' = IF pc = "create" THEN "Create" ELSE "Update"
    /\ pc' = "idle"
    /\ planned' = None
    /\ UNCHANGED mapperVars

Read ==
    /\ pc = "idle"
    /\ d.id # ""
    /\ \E ok \in BOOLEAN :
          LET r == resourceLogicAppTriggerRecurrenceRead(d, retrieveLogicAppTrigger(remote, ok))
          IN  /\ d' = r.d
              /\ lastErr' = r.err
              /\ calls' = r.calls
              /\ fetched' = r.fetched
    /\ lastOp' = "Read"
    /\ planned' = None
    /\ upserted' = None
    /\ UNCHANGED <<pc, remote, applied, mapperVars>>

\* the host drops the resource from its state when Delete returns no error
Delete ==
    /\ pc = "idle"
    /\ d.id # ""
    /\ \E ok \in BOOLEAN :
          LET r == resourceLogicAppTriggerRecurrenceDelete(d, resourceLogicAppTriggerRemove(ok))
              removed == r.calls = <<"remove">> /\ ok
          IN  /\ d' = IF r.err = NoErr THEN [d EXCEPT !.id = ""] ELSE d
              /\ remote' = IF removed THEN None ELSE remote
              /\ applied' = IF removed THEN None ELSE applied
              /\ lastErr' = r.err
              /\ calls' = r.calls
    /\ lastOp' = "Delete"
    /\ planned' = None
    /\ upserted' = None
    /\ fetched' = None
    /\ UNCHANGED <<pc, mapperVars>>

\* another writer replaces or removes the trigger in the remote workflow
OutOfBand(rem) ==
    /\ rem # remote
    /\ remote' = rem
    /\ applied' = None
    /\ lastOp' = "OutOfBand"
    /\ planned' = None
    /\ lastErr' = NoErr
    /\ calls' = <<>>
    /\ upserted' = None
    /\ fetched' = None
    /\ UNCHANGED <<d, pc, mapperVars>>

Next ==
    \/ \E C \in ConfigInputs : HostPlan(C)
    \/ \E id \in {TriggerId, "not-an-id"} : Import(id)
    \/ CreateUpdate
    \/ Read
    \/ Delete
    \/ \E rem \in OutOfBandStates : OutOfBand(rem)

Spec == Init /\ [][Next]_vars

-----------------------------------------------------------------------------
(* The schedule mapping on its own: a schedule list is expanded, stored,      *)
(* fetched and flattened                                                      *)

MapperHours == {0, MaxHour}

MapperMinutes == {0, MaxMinute}

MapperDays == {"Monday", "Friday"}

MapperOrders == HashOrders(MapperHours \cup MapperMinutes, MapperDays)

\* no block, a nil block, or one block
MapperInputs ==
    {<<>>, <<None>>}
    \cup {<<b>> : b \in ScheduleBlocks(MapperHours, MapperMinutes, MapperDays)}

InitMap ==
    /\ d = ZeroData
    /\ remote = None
    /\ pc = "idle"
    /\ lastOp = "none"
    /\ lastErr = NoErr
    /\ calls = <<>>
    /\ upserted = None
    /\ fetched = None
    /\ applied = None
    /\ planned = None
    /\ input \in MapperInputs
    /\ output = None
    /\ flat = None

Expand ==
    /\ output = None
    /\ \E h \in MapperOrders :
          output' = <<expandLogicAppTriggerRecurrenceSchedule(input, h)>>
    /\ UNCHANGED <<input, flat, lifecycleVars>>

Flatten ==
    /\ output # None
    /\ flat = None
    /\ flat' = <<SetSchedule(flattenLogicAppTriggerRecurrenceSchedule(WireSchedule(output[1])))>>
    /\ UNCHANGED <<input, output, lifecycleVars>>

NextMap == Expand \/ Flatten

SpecMap == InitMap /\ [][NextMap]_vars

-----------------------------------------------------------------------------
(* Properties *)

\* the recurrence object of the document passed to the upsert operation
UpsertedRecurrence == upserted[1].trigger.recurrence.fields

\* the last operation ran the Create/Update handler
RanCreateUpdate == lastOp \in {"Create", "Update"}

\* the fetch was called and reported, without error, that the trigger is gone
NotFound == fetched # None /\ fetched[1].err = NoErr /\ fetched[1].t = None

\* the fetch was called and returned a trigger document
Found == fetched # None /\ fetched[1].err = NoErr /\ fetched[1].t # None

\* C1: a document built by Create/Update from a ResourceData in which time_zone
\* is set and start_time is not has no timeZone key; in every document built,
\* timeZone is present only if startTime is
C1_TimeZoneOnlyWithStartTime ==
    [][upserted' # None =>
         /\ (GetOk(d, "time_zone") /\ ~GetOk(d, "start_time")
                => "timeZone" \notin DOMAIN UpsertedRecurrence')
         /\ ("timeZone" \in DOMAIN UpsertedRecurrence'
                => "startTime" \in DOMAIN UpsertedRecurrence')]_vars

\* a failed upsert leaves d as the handler received it: time_zone set,
\* start_time unset, and the document it built has no timeZone
C1_Witness ==
    /\ RanCreateUpdate
    /\ upserted # None
    /\ upserted[1].err # NoErr
    /\ GetOk(d, "time_zone")
    /\ ~GetOk(d, "start_time")
    /\ "timeZone" \notin DOMAIN UpsertedRecurrence

EmptyBlock == [at_these_hours |-> {}, at_these_minutes |-> {}, on_these_days |-> {}]

\* C7: a configuration whose schedule block has three empty sets is rejected by
\* validation: no handler is planned and no collaborator is called; every
\* document passed to the upsert operation that has a schedule key has at least
\* one of hours, minutes, weekDays in it
C7_EmptyScheduleRejected ==
    /\ (planned # None /\ planned[1].schedule = <<EmptyBlock>>
          => /\ lastErr = <<"validation">>
             /\ pc = "idle"
             /\ calls = <<>>
             /\ upserted = None)
    /\ (upserted # None /\ "schedule" \in DOMAIN UpsertedRecurrence
          => DOMAIN UpsertedRecurrence.schedule \cap {"hours", "minutes", "weekDays"} # {})

C7_Witness ==
    /\ planned # None
    /\ planned[1].schedule = <<EmptyBlock>>
    /\ lastErr = <<"validation">>
    /\ d.id # ""

\* C8: in Create/Update the upsert is the first call; the fetch follows it if
\* and only if the upsert returned no error; when the upsert fails, its error
\* is returned, nothing is fetched and d is left as it was
C8_ReadOnlyAfterUpsert ==
    [][lastOp' \in {"Create", "Update"} =>
         /\ upserted' # None
         /\ calls'[1] = "upsert"
         /\ (upserted'[1].err = NoErr <=> calls' = <<"upsert", "fetch">>)
         /\ (upserted'[1].err # NoErr
               => /\ calls' = <<"upsert">>
                  /\ lastErr' = upserted'[1].err
                  /\ fetched' = None
                  /\ d' = d)]_vars

C8_Witness ==
    /\ lastOp = "Update"
    /\ upserted # None
    /\ upserted[1].err # NoErr
    /\ calls = <<"upsert">>
    /\ lastErr = upserted[1].err

\* C9: the expanded schedule object has the key hours iff at_these_hours is
\* non-empty, minutes iff at_these_minutes is, weekDays iff on_these_days is;
\* each lists exactly the elements of its set, once each; there is no other key
C9_ExpandKeys ==
    output # None /\ input # <<>> /\ input[1] # None =>
        LET a == input[1]
            o == output[1]
            Lists(key, S) ==
                /\ key \in DOMAIN o <=> S # {}
                /\ key \in DOMAIN o => Range(o[key]) = S /\ Len(o[key]) = Cardinality(S)
        IN  /\ DOMAIN o \subseteq {"hours", "minutes", "weekDays"}
            /\ Lists("hours", a.at_these_hours)
            /\ Lists("minutes", a.at_these_minutes)
            /\ Lists("weekDays", a.on_these_days)

\* two hours expanded, the minutes empty and their key left out
C9_Witness ==
    /\ output # None
    /\ input # <<>>
    /\ input[1] # None
    /\ input[1].at_these_hours = MapperHours
    /\ input[1].at_these_minutes = {}
    /\ input[1].on_these_days = {"Friday"}
    /\ DOMAIN output[1] = {"hours", "weekDays"}
    /\ Len(output[1].hours) = 2

\* the last operation ran Read, on its own or as the re-read of Create/Update
RanRead == lastOp \in {"Read", "Create", "Update"}

\* C4: when Read parses the identifier and the fetch returns no error and no
\* document, Read clears the identifier, returns no error and writes no field
C4_NotFoundClearsId ==
    [][RanRead' /\ NotFound' =>
         /\ d'.id = ""
         /\ lastErr' = NoErr
         /\ [d' EXCEPT !.id = d.id] = d]_vars

\* a tracked resource with fields set, whose Read found the trigger gone
C4_Witness ==
    /\ lastOp = "Read"
    /\ NotFound
    /\ d.id = ""
    /\ lastErr = NoErr
    /\ d.frequency # ""
    /\ d.schedule # <<>>

\* the fetched document has no recurrence key, or a recurrence that is no object
Malformed ==
    /\ Found
    /\ \/ "recurrence" \notin DOMAIN fetched[1].t[1]
       \/ fetched[1].t[1].recurrence.kind # "object"

\* C5: when the fetched document has no recurrence, or one that is no object,
\* Read returns an error naming trigger, workflow and resource group, sets none
\* of frequency, interval, start_time, time_zone, schedule, and keeps the
\* identifier
C5_MalformedIsError ==
    [][RanRead' /\ Malformed' =>
         /\ lastErr' # NoErr
         /\ {"trig", "wf", "rg"} \subseteq Range(lastErr')
         /\ Fields(d') = Fields(d)
         /\ d'.id # ""
         /\ (lastOp' = "Read" => d'.id = d.id)]_vars

C5_Witness ==
    /\ lastOp = "Read"
    /\ Malformed
    /\ "recurrence" \in DOMAIN fetched[1].t[1]
    /\ lastErr = <<"Error parsing recurrence for HTTP Trigger", "trig", "wf", "rg">>
    /\ d.id = TriggerId
    /\ d.frequency = "Day"

\* C6: the resource becomes tracked only by a Create whose upsert succeeded (or
\* by import); it stops being tracked only by a Delete that returned no error
\* or by a Read that found the trigger gone, and both always end it untracked;
\* a failed upsert, a failed delete, a failed fetch or a malformed document
\* leave a tracked resource tracked
C6_Lifecycle ==
    [][/\ (d.id = "" /\ d'.id # ""
             => \/ lastOp' = "Import"
                \/ lastOp' = "Create" /\ upserted'[1].err = NoErr)
       /\ (d.id # "" /\ d'.id = ""
             => \/ lastOp' = "Delete" /\ lastErr' = NoErr
                \/ lastOp' \in {"Read", "Update"} /\ NotFound')
       /\ (lastOp' = "Delete" /\ lastErr' = NoErr => d'.id = "")
       /\ (RanRead' /\ NotFound' => d'.id = "")
       /\ (lastOp' = "Create" /\ upserted'[1].err = NoErr /\ ~NotFound' => d'.id # "")
       /\ (lastOp' = "Update" /\ ~NotFound' => d'.id # "")]_vars

\* a Read of a tracked resource that found the trigger removed out of band
C6_Witness ==
    /\ lastOp = "Read"
    /\ NotFound
    /\ remote = None
    /\ applied = None
    /\ d.id = ""
    /\ d.name = "trig"

\* the recurrence object of the document the fetch returned
FetchedRecurrence == fetched[1].t[1].recurrence.fields

\* C10: a Read that succeeds on a document sets each of frequency, interval,
\* start_time, time_zone, schedule from its key when the key is present, and
\* leaves the field as it was when the key is absent
C10_AbsentKeyKeepsField ==
    [][RanRead' /\ Found' /\ ~Malformed' =>
         LET rec == FetchedRecurrence'
         IN  /\ lastErr' = NoErr
             /\ d'.frequency = IF "frequency" \in DOMAIN rec THEN rec.frequency ELSE d.frequency
             /\ d'.interval = IF "interval" \in DOMAIN rec
                              THEN Float64ToInt(rec.interval) ELSE d.interval
             /\ d'.start_time = IF "startTime" \in DOMAIN rec THEN rec.startTime ELSE d.start_time
             /\ d'.time_zone = IF "timeZone" \in DOMAIN rec THEN rec.timeZone ELSE d.time_zone
             /\ IF "schedule" \in DOMAIN rec
                THEN LET Ints(j) == IF j \in DOMAIN rec.schedule
                                    THEN {Float64ToInt(x) : x \in Range(rec.schedule[j])}
                                    ELSE {}
                     IN  d'.schedule =
                            << [at_these_hours |-> Ints("hours"),
                                at_these_minutes |-> Ints("minutes"),
                                on_these_days |-> IF "weekDays" \in DOMAIN rec.schedule
                                                  THEN Range(rec.schedule.weekDays)
                                                  ELSE {}] >>
                ELSE d'.schedule = d.schedule]_vars

\* the document read last has none of startTime, timeZone, schedule, and d still
\* holds the three from before
C10_Witness ==
    /\ lastOp = "Read"
    /\ Found
    /\ ~Malformed
    /\ lastErr = NoErr
    /\ DOMAIN FetchedRecurrence = {"frequency", "interval"}
    /\ d.frequency = "Week"
    /\ d.start_time # ""
    /\ d.time_zone # ""
    /\ d.schedule # <<>>

WellFormed(rec) ==
    /\ {"frequency", "interval"} \subseteq DOMAIN rec
    /\ "timeZone" \in DOMAIN rec => "startTime" \in DOMAIN rec

\* equal documents, a list-valued schedule entry compared as a set
SameRecurrence(r1, r2) ==
    /\ DOMAIN r1 = DOMAIN r2
    /\ \A k \in DOMAIN r1 \ {"schedule"} : r1[k] = r2[k]
    /\ "schedule" \in DOMAIN r1 =>
          /\ DOMAIN r1.schedule = DOMAIN r2.schedule
          /\ \A j \in DOMAIN r1.schedule : Range(r1.schedule[j]) = Range(r2.schedule[j])

\* C3: after Read has flattened a well-formed document D into d, the document
\* Create/Update builds from d equals D, as the remote workflow returns it
C3_RoundTripDocument ==
    lastOp = "Read" /\ Found /\ ~Malformed /\ lastErr = NoErr
        /\ WellFormed(FetchedRecurrence)
    => \A h \in LifecycleOrders :
          SameRecurrence(Wire(BuildTrigger(d, h)).recurrence.fields, FetchedRecurrence)

====
